---- MODULE Spec2Model ----
(***************************************************************************)
(* Model of the transcription pipeline of run_whisper_cpp_demo_gui.py:     *)
(* the "start" button handler of main() and the three stage functions it   *)
(* calls (save_uploaded_file / download_youtube_audio, prepare_audio_file,  *)
(* run_whisper_cli), over a small file system and nondeterministic          *)
(* external processes (yt-dlp, ffmpeg, whisper-cli).                        *)
(*                                                                          *)
(* A path is a pair <<stem, ext>>: Path.suffix is "." \o ext ("" when the   *)
(* name has no dot).  The file system is a dictionary from the existing     *)
(* paths to their contents; contents and messages are sequences of strings. *)
(***************************************************************************)
EXTENDS Integers, Sequences, FiniteSets, TLC

\* ------------------------------------------------------------------ bounds
MaxRuns == 2

\* ------------------------------------------------------- program constants
SUPPORTED_TYPES == {"wav", "mp3", "mp4", "m4a"}

WHISPER_CLI == "whisper-cli"

MODEL_PATH == "model.bin"

UPLOAD_MODE == "file upload"

URL_MODE == "YouTube URL"

None == <<"None">>

\* ------------------------------------------------------------ input domains
\* names a caller can upload (stem, extension without the dot)
UploadNames ==
    { <<"clip", "mp4">>, <<"clip", "wav">>, <<"clip", "WAV">>, <<"clip", "ogg">>,
      <<"song", "MP3">> }

UploadBytes == { <<"b1">> }

NoUpload == [name |-> None, data |-> <<>>]

Uploads == [name : UploadNames, data : UploadBytes]

\* what the URL text box can hold
UrlInputs == { "", " ", "u" }

\* the 8 hex digits uuid4 can yield, cut down to two values
UuidHex == { "0a", "0b" }

\* what a transcript file written by the engine can contain
Texts == { <<>>, <<" ">>, <<" ", "h", " ">>, <<"w">> }

\* what a process can print on its standard error and standard output
StderrTexts == { <<>>, <<" ">>, <<"e">> }

StdoutTexts == { <<>>, <<"o">> }

\* ---------------------------------------------------------- python helpers
\* str.lower() on the suffixes in use
Lower(s) ==
    CASE s = ".WAV" -> ".wav"
      [] s = ".MP3" -> ".mp3"
      [] s = ".MP4" -> ".mp4"
      [] s = ".M4A" -> ".m4a"
      [] s = ".OGG" -> ".ogg"
      [] OTHER -> s

\* Path.suffix
Suffix(p) == IF p[2] = "" THEN "" ELSE "." \o p[2]

\* mutant: ".wav" is appended to the name, the old suffix stays
WithSuffixWav_Appended(p) == << (IF p[2] = "" THEN p[1] ELSE p[1] \o "." \o p[2]), "wav" >>

\* Path.with_suffix(".wav")
WithSuffixWav(p) == <<p[1], "wav">>

\* Path(str(p) + ".txt")
TxtPath(p) == << (IF p[2] = "" THEN p[1] ELSE p[1] \o "." \o p[2]), "txt" >>

\* str.strip() on a sequence of characters
RECURSIVE LStrip(_)
LStrip(s) == IF s # <<>> /\ Head(s) = " " THEN LStrip(Tail(s)) ELSE s

RECURSIVE RStrip(_)
RStrip(s) ==
    IF s # <<>> /\ s[Len(s)] = " " THEN RStrip(SubSeq(s, 1, Len(s) - 1)) ELSE s

Strip(s) == RStrip(LStrip(s))

\* python truthiness of an Optional[str]
Truthy(s) == s # None /\ Len(s) > 0

\* a or b
Or(a, b) == IF Truthy(a) THEN a ELSE b

\* dictionary file system
Exists(files, p) == p \in DOMAIN files

WriteFile(files, p, data) == (p :> data) @@ files

\* Path.unlink(missing_ok=True)
Unlink(files, p) == [ q \in (DOMAIN files) \ {p} |-> files[q] ]

\* ------------------------------------------------------ external processes
\* outcome of one subprocess.run: the executable is missing, or it ran and
\* exited with rc after maybe writing its output file
ProcOutcomes ==
    { [kind |-> "missing", rc |-> 127, wrote |-> FALSE, stdout |-> <<>>, stderr |-> <<>>] }
    \union
    [ kind : {"ran"}, rc : {0, 1}, wrote : BOOLEAN, stdout : StdoutTexts, stderr : StderrTexts ]

\* what the transcoder leaves in its output file
Transcoded(data, rc) == IF rc = 0 THEN <<"pcm">> \o data ELSE <<"partial">>

\* what the downloader leaves in its output file
Downloaded(url, rc) == IF rc = 0 THEN <<"audio", url>> ELSE <<"partial">>

NoExc == [type |-> "None", msg |-> <<>>]

Exc(t, m) == [type |-> t, msg |-> m]

Raised(r) == r.exc.type # "None"

\* the file system after a process that maybe wrote `data` at `p` has exited
AfterProcess(files, p, out, data) ==
    IF out.kind = "ran" /\ out.wrote THEN WriteFile(files, p, data) ELSE files

\* mutant: stdout is looked at before stderr
Diagnostic_StdoutFirst(out, default) ==
    Or(Or(Strip(out.stdout), Strip(out.stderr)), default)

\* stderr or stdout or default, both streams stripped
Diagnostic(out, default) == Or(Or(Strip(out.stderr), Strip(out.stdout)), default)

\* result of a stage function: the exception it raised (NoExc: it returned
\* `value`), the file system it leaves, its subprocess.run calls
Result(e, v, files, c) == [exc |-> e, value |-> v, files |-> files, calls |-> c]

\* -------------------------------------------------------------- the stages
\* io: whether mkdir/open/write went through
save_uploaded_file(files, up, io) ==
    LET output_path == up.name
    IN  IF io = "ok"
        THEN Result(NoExc, output_path, WriteFile(files, output_path, up.data), <<>>)
        ELSE Result(Exc("OSError", <<"[Errno 13] Permission denied">>), None, files, <<>>)

\* mutant: the whitelist lets another container through
AcceptedSuffixes_Wider == {".wav", ".mp3", ".mp4", ".m4a", ".ogg"}

\* the suffixes prepare_audio_file accepts
AcceptedSuffixes == {".wav", ".mp3", ".mp4", ".m4a"}

\* mutant: the fast path is gone, every accepted input is transcoded
IsWav_Never(suffix) == FALSE

\* mutant: the fast path also takes mp3 input
IsWav_OrMp3(suffix) == suffix \in {".wav", ".mp3"}

\* the input is returned as it is
IsWav(suffix) == suffix = ".wav"

\* mutant: the partial output is left behind
FailedOutput_Kept(files, output_path) == files

\* output_path.unlink(missing_ok=True) before the conversion error is raised
FailedOutput(files, output_path) == Unlink(files, output_path)

ffmpeg_cmd(input_path, output_path) ==
    <<"ffmpeg", "-y", "-i", input_path, "-vn", output_path>>

prepare_audio_file(files, input_path, out) ==
    LET suffix      == Lower(Suffix(input_path))
        output_path == WithSuffixWav(input_path)
        cmd         == ffmpeg_cmd(input_path, output_path)
        after       == AfterProcess(files, output_path, out,
                                    Transcoded(files[input_path], out.rc))
    IN  IF suffix \notin AcceptedSuffixes
        THEN Result(Exc("ValueError", <<"unsupported file format: ", suffix>>),
                    None, files, <<>>)
        ELSE IF IsWav(suffix)
        THEN Result(NoExc, input_path, files, <<>>)
        ELSE IF out.kind = "missing"
        THEN Result(Exc("RuntimeError", <<"ffmpeg command not found">>),
                    None, files, <<cmd>>)
        ELSE IF out.rc # 0 \/ ~Exists(after, output_path)
        THEN Result(Exc("RuntimeError",
                        <<"ffmpeg conversion failed: ">>
                            \o Diagnostic(out, <<"ffmpeg conversion failed.">>)),
                    None, FailedOutput(after, output_path), <<cmd>>)
        ELSE Result(NoExc, output_path, after, <<cmd>>)

\* output_path of a download: youtube_<8 hex digits>.wav
DownloadPath(hex) == << "youtube_" \o hex, "wav" >>

yt_dlp_cmd(output_path, url) ==
    <<"yt-dlp", "-x", "--audio-format", "wav", "-o", output_path, url>>

\* mutant: the downloader's exit code is not looked at
download_youtube_audio_AnyExit(files, url, hex, out) ==
    LET output_path == DownloadPath(hex)
        cmd         == yt_dlp_cmd(output_path, url)
        after       == AfterProcess(files, output_path, out, Downloaded(url, out.rc))
    IN  IF out.kind = "missing"
        THEN Result(Exc("RuntimeError", <<"yt-dlp command not found">>),
                    None, files, <<cmd>>)
        ELSE IF ~Exists(after, output_path)
        THEN Result(Exc("RuntimeError", <<"yt-dlp succeeded but no wav file">>),
                    None, after, <<cmd>>)
        ELSE Result(NoExc, output_path, after, <<cmd>>)

\* mutant: the FileNotFoundError of a missing yt-dlp is not caught
download_youtube_audio_NoCatch(files, url, hex, out) ==
    LET output_path == DownloadPath(hex)
        cmd         == yt_dlp_cmd(output_path, url)
        after       == AfterProcess(files, output_path, out, Downloaded(url, out.rc))
    IN  IF out.kind = "missing"
        THEN Result(Exc("FileNotFoundError", <<"[Errno 2] No such file: yt-dlp">>),
                    None, files, <<cmd>>)
        ELSE IF out.rc # 0
        THEN Result(Exc("RuntimeError",
                        <<"yt-dlp download failed: ">>
                            \o Diagnostic(out, <<"unknown error">>)),
                    None, after, <<cmd>>)
        ELSE IF ~Exists(after, output_path)
        THEN Result(Exc("RuntimeError", <<"yt-dlp succeeded but no wav file">>),
                    None, after, <<cmd>>)
        ELSE Result(NoExc, output_path, after, <<cmd>>)

download_youtube_audio(files, url, hex, out) ==
    LET output_path == DownloadPath(hex)
        cmd         == yt_dlp_cmd(output_path, url)
        after       == AfterProcess(files, output_path, out, Downloaded(url, out.rc))
    IN  IF out.kind = "missing"
        THEN Result(Exc("RuntimeError", <<"yt-dlp command not found">>),
                    None, files, <<cmd>>)
        ELSE IF out.rc # 0
        THEN Result(Exc("RuntimeError",
                        <<"yt-dlp download failed: ">>
                            \o Diagnostic(out, <<"unknown error">>)),
                    None, after, <<cmd>>)
        ELSE IF ~Exists(after, output_path)
        THEN Result(Exc("RuntimeError", <<"yt-dlp succeeded but no wav file">>),
                    None, after, <<cmd>>)
        ELSE Result(NoExc, output_path, after, <<cmd>>)

build_command(audio_path) ==
    <<WHISPER_CLI, "-m", MODEL_PATH, "-f", audio_path, "-l", "ko", "-otxt">>

\* mutant: a missing transcript is returned as an empty success
ResultMissing_Silent(txt_path) == [transcription |-> <<>>, error |-> None]

\* return "", "transcript file not found: <txt_path>"
ResultMissing(txt_path) ==
    [transcription |-> <<>>,
     error |-> <<"transcript file not found: ", txt_path[1], ".txt">>]

\* mutant: a transcript that is already there is returned, the engine not run
run_whisper_cli_Cached(files, audio_path, out, text) ==
    LET txt_path == TxtPath(audio_path)
        cmd      == build_command(audio_path)
        after    == AfterProcess(files, txt_path, out, text)
    IN  IF Exists(files, txt_path)
        THEN Result(NoExc,
                    [transcription |-> Strip(files[txt_path]), error |-> None],
                    files, <<>>)
        ELSE IF out.kind = "missing"
        THEN Result(Exc("FileNotFoundError", <<"[Errno 2] No such file: whisper-cli">>),
                    None, files, <<cmd>>)
        ELSE IF out.rc # 0
        THEN Result(NoExc,
                    [transcription |-> <<>>,
                     error |-> Diagnostic(out, <<"whisper-cli failed with an unknown error.">>)],
                    after, <<cmd>>)
        ELSE IF ~Exists(after, txt_path)
        THEN Result(NoExc, ResultMissing(txt_path), after, <<cmd>>)
        ELSE Result(NoExc,
                    [transcription |-> Strip(after[txt_path]), error |-> None],
                    after, <<cmd>>)

\* text: what the engine writes to <audio_path>.txt when it writes
run_whisper_cli(files, audio_path, out, text) ==
    LET txt_path == TxtPath(audio_path)
        cmd      == build_command(audio_path)
        after    == AfterProcess(files, txt_path, out, text)
    IN  IF out.kind = "missing"
        THEN Result(Exc("FileNotFoundError", <<"[Errno 2] No such file: whisper-cli">>),
                    None, files, <<cmd>>)
        ELSE IF out.rc # 0
        THEN Result(NoExc,
                    [transcription |-> <<>>,
                     error |-> Diagnostic(out, <<"whisper-cli failed with an unknown error.">>)],
                    after, <<cmd>>)
        ELSE IF ~Exists(after, txt_path)
        THEN Result(NoExc, ResultMissing(txt_path), after, <<cmd>>)
        ELSE Result(NoExc,
                    [transcription |-> Strip(after[txt_path]), error |-> None],
                    after, <<cmd>>)

\* mutant: a stage that raised is tried again
OnException_Retry(stage) == stage

\* where main() goes when a stage raises: the handler, then finally
OnException(stage) == "finally"

\* mutant: except RuntimeError
Caught_RuntimeOnly(exc) == exc.type = "RuntimeError"

\* except Exception: the exception classes the stages raise
Caught(exc) == exc.type \in {"ValueError", "RuntimeError", "FileNotFoundError", "OSError"}

\* if error: last_error = error  else: transcription = str(transcription)
StoreResult(ret) ==
    IF Truthy(ret.error)
    THEN [transcription |-> <<>>, last_error |-> ret.error]
    ELSE [transcription |-> ret.transcription, last_error |-> <<>>]

\* mutant: the cleanup also removes the transcript files
UnlinkAll_WithTranscripts(files, paths) ==
    [ q \in { d \in DOMAIN files : d \notin paths /\ d[2] # "txt" } |-> files[q] ]

\* for path in temp_paths: path.unlink(missing_ok=True)
UnlinkAll(files, paths) == [ q \in (DOMAIN files) \ paths |-> files[q] ]

\* ------------------------------------------------------------------- state
VARIABLES
    fs,                   \* the download directory: existing path -> content
    transcription,        \* st.session_state["transcription"]
    last_error,           \* st.session_state["last_error"]
    input_mode,           \* widget values of the run in hand
    uploaded,
    youtube_url,
    pc,                   \* position of main(): idle, acquire, normalize,
                          \* transcribe, finally, crashed
    source_path,          \* locals of main()
    prepared_audio_path,
    temp_paths,
    ret,                  \* (transcription, error) returned by run_whisper_cli
    exc,                  \* the exception a stage of this run raised
    calls,                \* history: subprocess.run calls of this run, in order
    stages,               \* history: stages entered in this run, in order
    procs,                \* history: how each external command of this run ended
    engine_out,           \* history: what the engine process of this run did
    created,              \* history: paths written by this run's processes
    runs,                 \* runs started so far
    oracle,               \* the deterministic transcoder and engine, when fixed
    prev                  \* history: upload and text of the run before this one

vars ==
    << fs, transcription, last_error, input_mode, uploaded, youtube_url, pc,
       source_path, prepared_audio_path, temp_paths, ret, exc, calls, stages,
       procs, engine_out, created, runs, oracle, prev >>

Commands == {"yt-dlp", "ffmpeg", WHISPER_CLI}

\* the effects of a run on its environment: the commands and the upload's write
Effects == Commands \union {"write"}

NotRun == [kind |-> "none", rc |-> 0, out_exists |-> FALSE]

NoRet == [transcription |-> None, error |-> None]

\* the engine has not been launched in this run
NotLaunched ==
    [kind |-> "none", rc |-> 0, wrote |-> FALSE, stdout |-> <<>>, stderr |-> <<>>]

\* how a command ended: was it found, its exit code, was its output file there
Ended(out, files, p) ==
    [kind |-> out.kind, rc |-> out.rc, out_exists |-> Exists(files, p)]

\* paths a process wrote
Wrote(out, p) == IF out.kind = "ran" /\ out.wrote THEN {p} ELSE {}

InitState ==
    /\ fs = << >>
    /\ transcription = <<>>
    /\ last_error = <<>>
    /\ input_mode = UPLOAD_MODE
    /\ uploaded = NoUpload
    /\ youtube_url = ""
    /\ pc = "idle"
    /\ source_path = None
    /\ prepared_audio_path = None
    /\ temp_paths = {}
    /\ ret = NoRet
    /\ exc = NoExc
    /\ calls = <<>>
    /\ stages = <<>>
    /\ procs = [c \in Effects |-> NotRun]
    /\ engine_out = NotLaunched
    /\ created = {}
    /\ runs = 0

\* the transcoder and the engine are free to end differently at each call
NoOracle == [ffmpeg |-> NotLaunched, engine |-> << >>]

NoPrev == [up |-> NoUpload, text |-> <<>>, done |-> FALSE]

Init ==
    /\ InitState
    /\ oracle = NoOracle
    /\ prev = NoPrev

\* mutant: the URL is not stripped before it is tested
BlankUrl_EmptyOnly(url) == url = ""

\* str.strip() of the URL box is empty
BlankUrl(url) == url \in {"", " "}

\* mutant: the previous transcription is not cleared at the start
StartRun_KeepsText(mode, up, url) ==
    /\ pc = "idle"
    /\ runs < MaxRuns
    /\ runs' = runs + 1
    /\ input_mode' = mode
    /\ uploaded' = up
    /\ youtube_url' = url
    /\ source_path' = None
    /\ prepared_audio_path' = None
    /\ temp_paths' = {}
    /\ ret' = NoRet
    /\ exc' = NoExc
    /\ calls' = <<>>
    /\ stages' = <<>>
    /\ procs' = [c \in Effects |-> NotRun]
    /\ engine_out' = NotLaunched
    /\ created' = {}
    /\ IF mode = UPLOAD_MODE /\ up = NoUpload
       THEN last_error' = <<"upload a file first">> /\ pc' = "idle"
       ELSE IF mode = URL_MODE /\ url \in {"", " "}
       THEN last_error' = <<"enter a YouTube link first">> /\ pc' = "idle"
       ELSE last_error' = <<>> /\ pc' = "acquire"
    /\ UNCHANGED << fs, transcription >>

\* the start button: reset the result, validate the input (lines 235-247)
StartRun(mode, up, url) ==
    /\ pc = "idle"
    /\ runs < MaxRuns
    /\ runs' = runs + 1
    /\ input_mode' = mode
    /\ uploaded' = up
    /\ youtube_url' = url
    /\ transcription' = <<>>
    /\ source_path' = None
    /\ prepared_audio_path' = None
    /\ temp_paths' = {}
    /\ ret' = NoRet
    /\ exc' = NoExc
    /\ calls' = <<>>
    /\ stages' = <<>>
    /\ procs' = [c \in Effects |-> NotRun]
    /\ engine_out' = NotLaunched
    /\ created' = {}
    /\ IF mode = UPLOAD_MODE /\ up = NoUpload
       THEN last_error' = <<"upload a file first">> /\ pc' = "idle"
       ELSE IF mode = URL_MODE /\ BlankUrl(url)
       THEN last_error' = <<"enter a YouTube link first">> /\ pc' = "idle"
       ELSE last_error' = <<>> /\ pc' = "acquire"
    /\ UNCHANGED fs

\* mutant: except Exception: pass
Handled_Swallowed(e, old_error) == old_error

\* except Exception as exc: last_error = str(exc)   (lines 267-268)
Handled(e, old_error) == IF Caught(e) THEN e.msg ELSE old_error

\* source_path = save_uploaded_file(...) | download_youtube_audio(...)
Acquire(io, hex, out) ==
    /\ pc = "acquire"
    /\ LET r == IF input_mode = UPLOAD_MODE
                THEN save_uploaded_file(fs, uploaded, io)
                ELSE download_youtube_audio(fs, youtube_url, hex, out)
           target == DownloadPath(hex)
       IN  /\ fs' = r.files
           /\ calls' = calls \o r.calls
           /\ stages' = Append(stages, "acquire")
           /\ exc' = r.exc
           /\ source_path' = r.value
           /\ IF input_mode = URL_MODE
              THEN /\ procs' = [procs EXCEPT !["yt-dlp"] =
                                   Ended(out, AfterProcess(fs, target, out,
                                                Downloaded(youtube_url, out.rc)), target)]
                   /\ created' = created \union Wrote(out, target)
              ELSE /\ procs' = [procs EXCEPT !["write"] =
                                   [kind |-> io, rc |-> 0,
                                    out_exists |-> Exists(r.files, uploaded.name)]]
                   /\ UNCHANGED created
           /\ IF Raised(r)
              THEN last_error' = Handled(r.exc, last_error) /\ pc' = OnException("acquire")
              ELSE UNCHANGED last_error /\ pc' = "normalize"
    /\ UNCHANGED << transcription, input_mode, uploaded, youtube_url,
                    prepared_audio_path, temp_paths, ret, engine_out, runs >>

\* prepared_audio_path = prepare_audio_file(source_path)
Normalize(out) ==
    /\ pc = "normalize"
    /\ LET r == prepare_audio_file(fs, source_path, out)
           target == WithSuffixWav(source_path)
           launched == r.calls # <<>>
       IN  /\ fs' = r.files
           /\ calls' = calls \o r.calls
           /\ stages' = Append(stages, "normalize")
           /\ exc' = r.exc
           /\ prepared_audio_path' = r.value
           /\ IF launched
              THEN /\ procs' = [procs EXCEPT !["ffmpeg"] =
                                   Ended(out, AfterProcess(fs, target, out,
                                                Transcoded(fs[source_path], out.rc)), target)]
                   /\ created' = created \union Wrote(out, target)
              ELSE UNCHANGED << procs, created >>
           /\ IF Raised(r)
              THEN last_error' = Handled(r.exc, last_error) /\ pc' = OnException("normalize")
              ELSE UNCHANGED last_error /\ pc' = "transcribe"
    /\ UNCHANGED << transcription, input_mode, uploaded, youtube_url,
                    source_path, temp_paths, ret, engine_out, runs >>

\* transcription, error = run_whisper_cli(...); store one of them
Transcribe(out, text) ==
    /\ pc = "transcribe"
    /\ LET r == run_whisper_cli(fs, prepared_audio_path, out, text)
           target == TxtPath(prepared_audio_path)
       IN  /\ fs' = r.files
           /\ calls' = calls \o r.calls
           /\ stages' = Append(stages, "transcribe")
           /\ exc' = r.exc
           /\ procs' = [procs EXCEPT ![WHISPER_CLI] =
                           Ended(out, AfterProcess(fs, target, out, text), target)]
           /\ engine_out' = out
           /\ IF Raised(r)
              THEN /\ last_error' = Handled(r.exc, last_error)
                   /\ pc' = OnException("transcribe")
                   /\ UNCHANGED << transcription, ret >>
              ELSE /\ ret' = r.value
                   /\ transcription' = StoreResult(r.value).transcription
                   /\ last_error' = StoreResult(r.value).last_error
                   /\ pc' = "finally"
    /\ UNCHANGED << input_mode, uploaded, youtube_url, source_path,
                    prepared_audio_path, temp_paths, created, runs >>

\* finally: unlink every temp path; an uncaught exception leaves main()
Finally ==
    /\ pc = "finally"
    /\ fs' = UnlinkAll(fs, temp_paths)
    /\ pc' = IF exc.type # "None" /\ ~Caught(exc) THEN "crashed" ELSE "idle"
    /\ UNCHANGED << transcription, last_error, input_mode, uploaded, youtube_url,
                    source_path, prepared_audio_path, temp_paths, ret, exc,
                    calls, stages, procs, engine_out, created, runs >>

Next ==
    \/ /\ \E up \in Uploads \union {NoUpload} : StartRun(UPLOAD_MODE, up, "")
       /\ UNCHANGED << oracle, prev >>
    \/ /\ \E url \in UrlInputs : StartRun(URL_MODE, NoUpload, url)
       /\ UNCHANGED << oracle, prev >>
    \/ /\ \E io \in {"ok", "oserror"}, hex \in UuidHex, out \in ProcOutcomes :
             Acquire(io, hex, out)
       /\ UNCHANGED << oracle, prev >>
    \/ /\ \E out \in ProcOutcomes : Normalize(out)
       /\ UNCHANGED << oracle, prev >>
    \/ /\ \E out \in ProcOutcomes, text \in Texts : Transcribe(out, text)
       /\ UNCHANGED << oracle, prev >>
    \/ /\ Finally
       /\ UNCHANGED << oracle, prev >>

Spec == Init /\ [][Next]_vars

\* ------------------------------------- runs with a deterministic environment
\* uploads of the repeated runs: a file to transcode and the .wav beside it
IdemUploads ==
    { [name |-> <<"clip", "mp4">>, data |-> <<"b1">>],
      [name |-> <<"clip", "wav">>, data |-> <<"b1">>] }

\* what the engine can be given: an uploaded .wav, a transcoded upload
AudioContents == { <<"b1">>, <<"pcm", "b1">> }

\* process outcomes without their diagnostic output
QuietOutcomes == { out \in ProcOutcomes : out.stdout = <<>> /\ out.stderr = <<>> }

\* a deterministic engine: outcome and transcript are a function of the audio
EngineBehaviours ==
    { b \in [out : QuietOutcomes, text : {<<"w">>, <<" ", "h", " ">>}] :
        (b.out.kind = "ran" /\ b.out.wrote) \/ b.text = <<"w">> }

\* a deterministic transcoder and a deterministic engine
Oracles == [ffmpeg : QuietOutcomes, engine : [AudioContents -> EngineBehaviours]]

InitIdem ==
    /\ InitState
    /\ oracle \in Oracles
    /\ prev = NoPrev

NextIdem ==
    \/ /\ \E up \in IdemUploads : StartRun(UPLOAD_MODE, up, "")
       /\ prev' = [up |-> uploaded, text |-> transcription, done |-> runs > 0]
       /\ UNCHANGED oracle
    \/ /\ Acquire("ok", "0a", oracle.ffmpeg)
       /\ UNCHANGED << oracle, prev >>
    \/ /\ Normalize(oracle.ffmpeg)
       /\ UNCHANGED << oracle, prev >>
    \/ /\ pc = "transcribe"
       /\ Transcribe(oracle.engine[fs[prepared_audio_path]].out,
                     oracle.engine[fs[prepared_audio_path]].text)
       /\ UNCHANGED << oracle, prev >>
    \/ /\ Finally
       /\ UNCHANGED << oracle, prev >>

SpecIdem == InitIdem /\ [][NextIdem]_vars

\* ---------------------------------------------------------------- claims
\* a run has been started and main() is back at the button
Concluded == pc = "idle" /\ runs > 0

\* subprocess.run was called with this executable in the run in hand
Called(name) == \E i \in DOMAIN calls : calls[i][1] = name

TimesCalled(name) == Cardinality({ i \in DOMAIN calls : calls[i][1] = name })

\* the environment made a stage fail (spec section 6: success is a zero exit
\* code and the output file in place)
CommandFailed(name) ==
    /\ procs[name].kind # "none"
    /\ \/ procs[name].kind = "missing"
       \/ procs[name].rc # 0
       \/ ~procs[name].out_exists

AcquireFailed == CommandFailed("yt-dlp") \/ procs["write"].kind = "oserror"

NormalizeFailed ==
    /\ source_path # None
    /\ Len(stages) >= 2
    /\ \/ Lower(Suffix(source_path)) \notin { "." \o t : t \in SUPPORTED_TYPES }
       \/ CommandFailed("ffmpeg")

TranscribeFailed == CommandFailed(WHISPER_CLI)

\* C1 (as claimed): once a run has concluded, no file written by the run's
\* downloader or transcoder is left, and the uploaded original is still there.
C1_IntermediatesDeleted ==
    Concluded =>
        /\ \A p \in created : ~Exists(fs, p)
        /\ (input_mode = UPLOAD_MODE /\ source_path # None) => Exists(fs, source_path)

\* C2: the stages are entered in the order acquire, normalize, transcribe, the
\* commands are called in that order, and after a failed acquisition neither
\* ffmpeg nor the engine is called, after a failed normalization the engine
\* is not called.
C2_StrictOrder ==
    /\ stages \in { <<>>, <<"acquire">>, <<"acquire", "normalize">>,
                     <<"acquire", "normalize", "transcribe">> }
    /\ \A i, j \in DOMAIN calls :
          i < j => /\ calls[i][1] # WHISPER_CLI
                   /\ calls[j][1] # "yt-dlp"
    /\ AcquireFailed =>
          /\ ~Called("ffmpeg") /\ ~Called(WHISPER_CLI)
          /\ stages = <<"acquire">>
    /\ NormalizeFailed =>
          /\ ~Called(WHISPER_CLI)
          /\ stages = <<"acquire", "normalize">>

\* a concluded run whose transcoder was launched and failed
C2_Witness ==
    /\ Concluded
    /\ CommandFailed("ffmpeg")
    /\ stages = <<"acquire", "normalize">>

\* C3: every path handed to the engine has the suffix .wav (in any case), and
\* normalize returns its input path only when that input has the suffix .wav.
C3_CanonicalToEngine ==
    /\ \A i \in DOMAIN calls :
          calls[i][1] = WHISPER_CLI => Lower(Suffix(calls[i][5])) = ".wav"
    /\ (prepared_audio_path # None /\ prepared_audio_path = source_path)
          => Lower(Suffix(source_path)) = ".wav"

\* the engine was called on the output of the transcoder
C3_Witness ==
    /\ Called(WHISPER_CLI)
    /\ Called("ffmpeg")
    /\ prepared_audio_path # source_path

\* C4 (as claimed): after a concluded run exactly one of the transcription
\* text and the error message is non-empty.
C4_ExactlyOne ==
    Concluded =>
        \/ Truthy(transcription) /\ ~Truthy(last_error)
        \/ ~Truthy(transcription) /\ Truthy(last_error)

\* C4 (amended): after a concluded run the text and the error are never both
\* non-empty, and they are both empty only when the engine exited zero and
\* the transcript file it left is empty or whitespace-only.
C4_NeverBoth ==
    Concluded =>
        /\ ~(Truthy(transcription) /\ Truthy(last_error))
        /\ (~Truthy(transcription) /\ ~Truthy(last_error)) =>
              /\ procs[WHISPER_CLI].kind = "ran"
              /\ procs[WHISPER_CLI].rc = 0
              /\ Exists(fs, TxtPath(prepared_audio_path))
              /\ Strip(fs[TxtPath(prepared_audio_path)]) = <<>>

\* a concluded run with a whitespace-only transcript: neither part is set
C4_Witness ==
    /\ Concluded
    /\ ~Truthy(transcription) /\ ~Truthy(last_error)
    /\ Exists(fs, TxtPath(prepared_audio_path))
    /\ fs[TxtPath(prepared_audio_path)] = <<" ">>

\* the run in hand met one of the failures of the error taxonomy
RunFailed == AcquireFailed \/ NormalizeFailed \/ TranscribeFailed

\* C5: no exception leaves main(), and a concluded run in which a stage
\* failed has a non-empty error message and no text.
C5_FailuresReported ==
    /\ pc # "crashed"
    /\ (pc = "finally" /\ exc.type # "None") => last_error = exc.msg
    /\ (Concluded /\ RunFailed) => Truthy(last_error) /\ transcription = <<>>

\* a concluded run whose engine executable was missing
C5_Witness ==
    /\ Concluded
    /\ procs[WHISPER_CLI].kind = "missing"
    /\ exc.type = "FileNotFoundError"

\* C6: in one run subprocess.run is called at most once per executable, and
\* the only step out of a concluded failed run is the start of a new run.
C6_NoRetry ==
    [][ /\ \A name \in Commands : TimesCalled(name)' <= 1
        /\ Len(stages') <= 3
        /\ (Concluded /\ Truthy(last_error)) => runs' = runs + 1 ]_vars

\* a failed run in which two commands were launched, once each
C6_Witness ==
    /\ Concluded
    /\ Truthy(last_error)
    /\ TimesCalled("ffmpeg") = 1
    /\ TimesCalled(WHISPER_CLI) = 1
    /\ TranscribeFailed

\* the transcoder ran and exited non-zero or left no output file
TranscodeFailed ==
    /\ procs["ffmpeg"].kind = "ran"
    /\ procs["ffmpeg"].rc # 0 \/ ~procs["ffmpeg"].out_exists

\* C7: when the transcoder fails, normalize raises the conversion error and
\* no file is left at the sibling .wav path.
C7_NoPartialOutput ==
    TranscodeFailed =>
        /\ exc.type = "RuntimeError"
        /\ exc.msg[1] = "ffmpeg conversion failed: "
        /\ prepared_audio_path = None
        /\ ~Exists(fs, WithSuffixWav(source_path))

\* the transcoder exited non-zero after writing part of its output
C7_Witness ==
    /\ pc = "finally"
    /\ procs["ffmpeg"].rc # 0
    /\ procs["ffmpeg"].out_exists
    /\ WithSuffixWav(source_path) \in created

\* the engine exited zero and no transcript file was there
TranscriptMissing ==
    /\ procs[WHISPER_CLI].kind = "ran"
    /\ procs[WHISPER_CLI].rc = 0
    /\ ~procs[WHISPER_CLI].out_exists

\* C8: when the engine exits zero and <audioPath>.txt is absent, transcribe
\* returns empty text with the file-not-found error and raises nothing.
C8_ResultMissing ==
    TranscriptMissing =>
        /\ exc = NoExc
        /\ ret.transcription = <<>>
        /\ Truthy(ret.error)
        /\ ret.error[1] = "transcript file not found: "
        /\ last_error = ret.error

C8_Witness == Concluded /\ TranscriptMissing

\* C9: normalize on a path whose suffix is outside the whitelist raises the
\* unsupported-format error, calls no process and leaves every file alone.
C9_UnsupportedFormat ==
    [][ (pc = "normalize"
           /\ Lower(Suffix(source_path)) \notin { "." \o t : t \in SUPPORTED_TYPES })
        => /\ exc'.type = "ValueError"
           /\ exc'.msg[1] = "unsupported file format: "
           /\ prepared_audio_path' = None
           /\ calls' = calls
           /\ fs' = fs
           /\ pc' = "finally" ]_vars

\* normalize has refused clip.ogg
C9_Witness ==
    /\ pc = "finally"
    /\ exc.type = "ValueError"
    /\ source_path = <<"clip", "ogg">>

\* C10: normalize on a .wav path (in any case) returns that path, calls no
\* process and leaves every file alone.
C10_WavFastPath ==
    [][ (pc = "normalize" /\ Lower(Suffix(source_path)) = ".wav")
        => /\ prepared_audio_path' = source_path
           /\ exc' = NoExc
           /\ calls' = calls
           /\ fs' = fs
           /\ pc' = "transcribe" ]_vars

\* normalize has returned an uploaded .wav as it was
C10_Witness ==
    /\ pc = "transcribe"
    /\ input_mode = UPLOAD_MODE
    /\ prepared_audio_path = source_path
    /\ ~Called("ffmpeg")

\* C11: when normalize is given an mp3, mp4 or m4a path and the transcoder
\* exits zero with its output in place, normalize returns the path with the
\* same stem and the suffix .wav, a file is there, and the input file is
\* still there with the content it had.
C11_SiblingProduced ==
    [][ ( /\ pc = "normalize"
          /\ Lower(Suffix(source_path)) \in {".mp3", ".mp4", ".m4a"}
          /\ procs'["ffmpeg"].kind = "ran"
          /\ procs'["ffmpeg"].rc = 0
          /\ procs'["ffmpeg"].out_exists )
        => /\ prepared_audio_path' = <<source_path[1], "wav">>
           /\ Exists(fs', <<source_path[1], "wav">>)
           /\ Exists(fs', source_path)
           /\ fs'[source_path] = fs[source_path]
           /\ exc' = NoExc ]_vars

\* clip.mp4 has been transcoded to clip.wav and is as it was uploaded
C11_Witness ==
    /\ pc = "transcribe"
    /\ source_path = <<"clip", "mp4">>
    /\ prepared_audio_path = <<"clip", "wav">>
    /\ procs["ffmpeg"].rc = 0
    /\ <<"clip", "wav">> \in created
    /\ fs[<<"clip", "mp4">>] = uploaded.data

\* C12: when the yt-dlp executable is missing, the run's error says that the
\* yt-dlp command was not found, no file is created, and neither ffmpeg nor
\* the engine is called.
C12_DownloaderUnavailable ==
    [][ procs'["yt-dlp"].kind = "missing"
        => /\ input_mode' = URL_MODE
           /\ last_error' = <<"yt-dlp command not found">>
           /\ transcription' = <<>>
           /\ fs' = fs
           /\ created' = {}
           /\ Len(calls') = 1
           /\ calls'[1][1] = "yt-dlp"
           /\ stages' = <<"acquire">> ]_vars

\* a concluded run on a URL whose downloader was missing
C12_Witness ==
    /\ Concluded
    /\ youtube_url = "u"
    /\ procs["yt-dlp"].kind = "missing"

\* C13: when the engine exits non-zero, transcribe returns empty text and
\* the error is the stripped stderr if that is non-empty, else the stripped
\* stdout if that is non-empty, else the generic message, also when a file
\* is at <audioPath>.txt; the run's text stays empty.
C13_EngineFailure ==
    (engine_out.kind = "ran" /\ engine_out.rc # 0) =>
        /\ exc = NoExc
        /\ ret.transcription = <<>>
        /\ ret.error =
              IF Strip(engine_out.stderr) # <<>> THEN Strip(engine_out.stderr)
              ELSE IF Strip(engine_out.stdout) # <<>> THEN Strip(engine_out.stdout)
              ELSE <<"whisper-cli failed with an unknown error.">>
        /\ Truthy(ret.error)
        /\ transcription = <<>>
        /\ last_error = ret.error

\* the engine failed with blank stderr and text on stdout, and a non-empty
\* transcript file is in place
C13_Witness ==
    /\ Concluded
    /\ engine_out.kind = "ran" /\ engine_out.rc # 0
    /\ engine_out.stderr = <<" ">> /\ engine_out.stdout = <<"o">>
    /\ Exists(fs, TxtPath(prepared_audio_path))
    /\ fs[TxtPath(prepared_audio_path)] = <<"w">>
    /\ last_error = <<"o">>

\* the two messages of the input validation
MissingInputMessages == { <<"upload a file first">>, <<"enter a YouTube link first">> }

C16_MissingInput ==
    [][ ( /\ runs' = runs + 1
          /\ \/ input_mode' = UPLOAD_MODE /\ uploaded' = NoUpload
             \/ input_mode' = URL_MODE /\ youtube_url' \in {"", " "} )
        => /\ pc' = "idle"
           /\ last_error' \in MissingInputMessages
           /\ transcription' = <<>>
           /\ stages' = <<>>
           /\ calls' = <<>>
           /\ fs' = fs ]_vars

\* a run started with a blank URL has ended with the message
C16_Witness ==
    /\ Concluded
    /\ input_mode = URL_MODE
    /\ youtube_url = " "
    /\ last_error = <<"enter a YouTube link first">>
    /\ stages = <<>>

\* C17: once the engine of a run has written <audioPath>.txt, the file is
\* there for the rest of the run and after it.
C17_TranscriptKept ==
    (engine_out.kind = "ran" /\ engine_out.wrote) =>
        Exists(fs, TxtPath(prepared_audio_path))

\* a concluded successful run whose engine wrote the transcript
C17_Witness ==
    /\ Concluded
    /\ engine_out.kind = "ran" /\ engine_out.wrote /\ engine_out.rc = 0
    /\ Truthy(transcription)
    /\ Exists(fs, TxtPath(prepared_audio_path))

\* the stage a message names by its leading text, "none" when it names none
StageNamed(msg) ==
    IF msg = <<>> THEN "none"
    ELSE IF msg[1] \in { "yt-dlp command not found", "yt-dlp download failed: ",
                         "yt-dlp succeeded but no wav file" } THEN "acquire"
    ELSE IF msg[1] \in { "unsupported file format: ", "ffmpeg command not found",
                         "ffmpeg conversion failed: " } THEN "normalize"
    ELSE IF msg[1] \in { "transcript file not found: ",
                         "whisper-cli failed with an unknown error.",
                         "[Errno 2] No such file: whisper-cli" } THEN "transcribe"
    ELSE "none"

\* C18 (as claimed): the result of a failed run names the stage that failed.
\* The result holds the message alone; the stage is looked for in it.
C18_StageRecorded ==
    (Concluded /\ RunFailed) => StageNamed(last_error) = stages[Len(stages)]

\* C19 (as claimed): normalize leaves every uploaded original of an earlier
\* run in place with its content.
C19_OriginalsKept ==
    [][ pc = "normalize" =>
          \A p \in DOMAIN fs :
              (p # source_path /\ fs[p] \in UploadBytes)
                  => (p \in DOMAIN fs' /\ fs'[p] = fs[p]) ]_vars

\* C20 (as claimed): the text of a successful run is the stripped content of
\* a transcript file that the engine of this run wrote.
C20_OwnTranscript ==
    (Concluded /\ Truthy(transcription)) =>
        /\ engine_out.kind = "ran"
        /\ engine_out.rc = 0
        /\ engine_out.wrote
        /\ transcription = Strip(fs[TxtPath(prepared_audio_path)])

\* C15: with a deterministic transcoder and engine, a run on the same upload
\* as the run before it ends with the same transcription text, whatever
\* files the earlier runs left.
C15_Idempotent ==
    (Concluded /\ prev.done /\ uploaded # NoUpload /\ prev.up = uploaded)
        => transcription = prev.text

\* clip.mp4 has been run twice in succession and gave a text
C15_Witness ==
    /\ Concluded
    /\ prev.done
    /\ prev.up = uploaded
    /\ uploaded.name = <<"clip", "mp4">>
    /\ Truthy(transcription)
    /\ Exists(fs, <<"clip", "wav">>)
    /\ Exists(fs, <<"clip.wav", "txt">>)
====
